---- MODULE Spec2Model ----
(***************************************************************************)
(* Model of the RAG notebooks of src/Hybrid_RAG.ipynb:                     *)
(*   - the "Corrective Financial RAG" cell (lines 372-465): keyword        *)
(*     retrieval over a tagged document dictionary, TF-IDF ranking,        *)
(*     context assembly, GPT-2 generation and the one-shot corrective      *)
(*     retry, and the endpoint that serves the result;                     *)
(*   - the "Hybrid RAG" chatbot cell (lines 69-140): an input loop with a  *)
(*     static retrieval step and a hosted model call;                      *)
(*   - the plain chatbot cell (lines 215-263): the same input loop with    *)
(*     the line typed as the prompt and no retrieval step;                 *)
(* and of the code cells of the LangChain evaluation notebook of           *)
(* src/unnamed/part_000, as to the names each cell uses and binds.         *)
(* Python strings are TLA+ strings (Len, SubSeq and \o act on them);       *)
(* Python lists are sequences.  List positions are 1-based here where      *)
(* Python's are 0-based.                                                   *)
(***************************************************************************)
EXTENDS Integers, Sequences, FiniteSets, TLC

VARIABLES
    notebook,            \* which notebook cell is being executed
    pc,                  \* position in the cell being executed
    database,            \* corrective: the document dictionary, in insertion order
    user_query,          \* corrective: the query string
    documents,           \* corrective: result of retrieve_documents(user_query, database)
    similarities,        \* corrective: cosine similarity of the query to each document
    ranked_doc_indices,  \* corrective: np.argsort(similarities)[::-1]
    ranked_docs,         \* corrective: documents in ranked order
    context,             \* corrective: the first assembled context
    generated_text,      \* corrective: decoded output of the first generation
    additional_docs,     \* corrective_rag: the re-retrieved documents
    additional_context,  \* corrective_rag: the context of the retry
    final_response,      \* corrective: result of corrective_rag
    responses,           \* corrective: the objects the endpoint has returned so far
    stdin,               \* chatbot: the input lines not read yet
    read_lines,          \* chatbot: the input lines read so far, in reading order
    user_input,          \* chatbot: the line read last
    retrieved_docs,      \* chatbot: result of retrieve_documents(user_input)
    chat_context,        \* chatbot: "\n".join(retrieved_docs)
    combined_input,      \* chatbot: the prompt built from the query and the context
    result,              \* chatbot: what invoke_model returned
    stdout,              \* chatbot: the lines printed so far
    generate_calls,      \* the prompts handed to the generator so far, in call order
    generate_outputs,    \* the texts the corrective notebook's generator returned so far
    raised,              \* the statement that raised, "" when none did
    cell,                \* evaluation notebook: the number of code cells executed
    namespace,           \* evaluation notebook: the names bound in the kernel
    name_errors          \* evaluation notebook: the NameErrors raised so far

corrVars == <<database, user_query, documents, similarities, ranked_doc_indices,
              ranked_docs, context, generated_text, additional_docs,
              additional_context, final_response>>

chatVars == <<stdin, user_input, retrieved_docs, chat_context, combined_input,
              result, stdout>>

nbVars == <<cell, namespace, name_errors>>

vars == <<notebook, pc, corrVars, responses, chatVars, read_lines, generate_calls,
          generate_outputs, raised, nbVars>>

(***************************************************************************)
(* Bounds of the model.                                                    *)
(***************************************************************************)
MaxDocs == 3      \* documents in a generated database
MaxScore == 2     \* similarity scores are abstracted to 0..MaxScore
MaxLines == 2     \* input lines typed into the chatbot
MaxRequests == 2  \* requests sent to the endpoint

(***************************************************************************)
(* Python string primitives.                                               *)
(***************************************************************************)
UpperChars == "ABCDEFGHIJKLMNOPQRSTUVWXYZ"
LowerChars == "abcdefghijklmnopqrstuvwxyz"
DigitChars == "0123456789_"

\* the characters of a string, as a set
CharsOf(s) == {SubSeq(s, i, i) : i \in 1..Len(s)}

WordChars == CharsOf(LowerChars) \cup CharsOf(UpperChars) \cup CharsOf(DigitChars)

SpaceChars == {" ", "\n", "\t"}

\* needle in hay  (Python's substring test; the empty string is in every string)
Contains(needle, hay) ==
    \E i \in 1..(Len(hay) - Len(needle) + 1) :
        SubSeq(hay, i, i + Len(needle) - 1) = needle

\* the lower-case letter of every upper-case letter
LowerMap ==
    "A" :> "a" @@ "B" :> "b" @@ "C" :> "c" @@ "D" :> "d" @@ "E" :> "e" @@ "F" :> "f" @@
    "G" :> "g" @@ "H" :> "h" @@ "I" :> "i" @@ "J" :> "j" @@ "K" :> "k" @@ "L" :> "l" @@
    "M" :> "m" @@ "N" :> "n" @@ "O" :> "o" @@ "P" :> "p" @@ "Q" :> "q" @@ "R" :> "r" @@
    "S" :> "s" @@ "T" :> "t" @@ "U" :> "u" @@ "V" :> "v" @@ "W" :> "w" @@ "X" :> "x" @@
    "Y" :> "y" @@ "Z" :> "z"

LowerChar(c) == IF c \in DOMAIN LowerMap THEN LowerMap[c] ELSE c

RECURSIVE Lower(_)
\* str.lower(): every character lowered (the halving only bounds the nesting)
Lower(s) ==
    IF Len(s) = 0 THEN ""
    ELSE IF Len(s) = 1 THEN LowerChar(s)
    ELSE LET h == Len(s) \div 2
         IN  Lower(SubSeq(s, 1, h)) \o Lower(SubSeq(s, h + 1, Len(s)))

\* the least element of a non-empty set of integers
MinOf(S) == CHOOSE x \in S : \A y \in S : x <= y

RECURSIVE RunsFrom(_, _, _, _)
\* the maximal runs, left to right from position i on, of characters that are
\* in chars (member TRUE) or that are not in chars (member FALSE)
RunsFrom(s, chars, member, i) ==
    LET inRun(j) == (SubSeq(s, j, j) \in chars) = member
        starts == {j \in i..Len(s) : inRun(j)}
    IN  IF starts = {} THEN <<>>
        ELSE LET first == MinOf(starts)
                 stops == {j \in first..Len(s) : j = Len(s) \/ ~inRun(j + 1)}
                 last == MinOf(stops)
             IN  <<SubSeq(s, first, last)>> \o RunsFrom(s, chars, member, last + 1)

Runs(s, chars, member) == RunsFrom(s, chars, member, 1)

\* str.split() without argument: the maximal runs of non-whitespace characters
SplitWS(s) == Runs(s, SpaceChars, FALSE)

RECURSIVE Join_dedup(_, _)
\* a text equal to the one after it is left out
Join_dedup(sep, texts) ==
    IF texts = <<>> THEN ""
    ELSE IF Len(texts) = 1 THEN texts[1]
    ELSE IF texts[1] = texts[2] THEN Join_dedup(sep, Tail(texts))
    ELSE texts[1] \o sep \o Join_dedup(sep, Tail(texts))

RECURSIVE Join_trailing(_, _)
\* the separator appended after every text, the last one too
Join_trailing(sep, texts) ==
    IF texts = <<>> THEN ""
    ELSE texts[1] \o sep \o Join_trailing(sep, Tail(texts))

RECURSIVE Join(_, _)
\* sep.join(texts)
Join(sep, texts) ==
    IF texts = <<>> THEN ""
    ELSE IF Len(texts) = 1 THEN texts[1]
    ELSE texts[1] \o sep \o Join(sep, Tail(texts))

\* the slice without its end: lst[:]
Take_all(lst, k) == lst

\* lst[:k]
Take(lst, k) == SubSeq(lst, 1, IF Len(lst) < k THEN Len(lst) ELSE k)

\* lst[::-1]
Reverse(lst) == [i \in 1..Len(lst) |-> lst[Len(lst) + 1 - i]]

(***************************************************************************)
(* The corrective notebook's data.                                         *)
(***************************************************************************)
\* the database literal of the notebook
SourceDatabase == <<
    [text |-> "Company X has significant liquidity risk due to its high debt ratio.",
     metadata |-> <<"liquidity risk", "debt">>],
    [text |-> "Company X maintains a solid cash reserve, which mitigates some of the liquidity concerns.",
     metadata |-> <<"cash reserve", "liquidity">>],
    [text |-> "The current market conditions have led to increased liquidity stress for many firms, including Company X.",
     metadata |-> <<"market conditions", "liquidity stress">>],
    [text |-> "Company X has recently restructured its debt, which lowers its short-term liquidity risk.",
     metadata |-> <<"debt restructuring", "liquidity risk">>] >>

SourceQuery == "What is the liquidity risk for Company X?"

\* the marker of corrective_rag, which is also its fixed corrective query
Marker == "liquidity risk"

\* documents the generated databases are built from
DocPool == {
    [text |-> "liquidity risk is high", metadata |-> <<"liquidity risk", "debt">>],
    [text |-> "cash", metadata |-> <<"liquidity">>],
    [text |-> "stress", metadata |-> <<"id", "Debt">>] }

Databases ==
    {SourceDatabase} \cup UNION {[1..n -> DocPool] : n \in 0..MaxDocs}

Queries == {SourceQuery, "liquidity risk", "Debt", "Liquidity", "debt and liquidity risk"}

\* texts the generator may return
GenOutputs == {"Company X has liquidity risk.", "Company X is stable.", ""}

(***************************************************************************)
(* The corrective notebook's functions.                                    *)
(***************************************************************************)
\* the query compared as typed: any(tag in query for tag in metadata)
AnyTagIn_nolower(metadata, query) ==
    \E k \in 1..Len(metadata) : Contains(metadata[k], query)

\* the tags lowered too: any(tag.lower() in query.lower() for tag in metadata)
AnyTagIn_lowertags(metadata, query) ==
    \E k \in 1..Len(metadata) : Contains(Lower(metadata[k]), Lower(query))

\* any(tag in query.lower() for tag in metadata)
AnyTagIn(metadata, query) ==
    \E k \in 1..Len(metadata) : Contains(metadata[k], Lower(query))

RECURSIVE retrieve_documents_reversed(_, _)
\* relevant_docs.insert(0, text) in place of relevant_docs.append(text)
retrieve_documents_reversed(query, db) ==
    IF db = <<>> THEN <<>>
    ELSE LET rest == retrieve_documents_reversed(query, Tail(db))
         IN  IF AnyTagIn(Head(db).metadata, query)
             THEN rest \o <<Head(db).text>>
             ELSE rest

RECURSIVE retrieve_documents_seeded(_, _)
\* relevant_docs = [""] in place of relevant_docs = []
retrieve_documents_seeded(query, db) ==
    IF db = <<>> THEN <<"">>
    ELSE LET rest == retrieve_documents_seeded(query, Tail(db))
         IN  IF AnyTagIn(Head(db).metadata, query)
             THEN <<Head(db).text>> \o rest
             ELSE rest

RECURSIVE PerTag(_, _, _)
\* the text once for every tag that occurs in the lowered query
PerTag(text, metadata, lowered) ==
    IF metadata = <<>> THEN <<>>
    ELSE (IF Contains(Head(metadata), lowered) THEN <<text>> ELSE <<>>)
             \o PerTag(text, Tail(metadata), lowered)

RECURSIVE retrieve_documents_pertag(_, _)
\* the text appended once for every matching tag: a loop over the tags with
\* an append in its body in place of any(...)
retrieve_documents_pertag(query, db) ==
    IF db = <<>> THEN <<>>
    ELSE PerTag(Head(db).text, Head(db).metadata, Lower(query))
             \o retrieve_documents_pertag(query, Tail(db))

RECURSIVE retrieve_documents(_, _)
\* for doc_id, doc_data in database.items(): if any(...): relevant_docs.append(text)
retrieve_documents(query, db) ==
    IF db = <<>> THEN <<>>
    ELSE LET rest == retrieve_documents(query, Tail(db))
         IN  IF AnyTagIn(Head(db).metadata, query)
             THEN <<Head(db).text>> \o rest
             ELSE rest

\* text.lower().split()
preprocess_text(text) == SplitWS(Lower(text))

\* the runs of two or more word characters: TfidfVectorizer's default token pattern
WordRuns(s) ==
    LET runs == Runs(s, WordChars, TRUE)
    IN  {runs[k] : k \in {i \in 1..Len(runs) : Len(runs[i]) >= 2}}

\* the terms TfidfVectorizer extracts from a text (lowercase=True)
Terms(text) == WordRuns(Lower(text))

\* vectorizer.fit_transform(documents) fits this vocabulary
Vocabulary(docs) == UNION {Terms(docs[i]) : i \in 1..Len(docs)}

RECURSIVE ScoreVectors(_, _)
\* the score vectors in which a score is positive exactly when the query and
\* the document share a term of the vocabulary
ScoreVectors(query, docs) ==
    IF docs = <<>> THEN {<<>>}
    ELSE LET first == IF Terms(query) \cap Terms(Head(docs)) # {}
                      THEN 1..MaxScore ELSE {0}
         IN  {<<a>> \o r : a \in first, r \in ScoreVectors(query, Tail(docs))}

\* cosine_similarity(query_vector, doc_vectors).flatten(): the positive reals
\* are abstracted to 1..MaxScore; equal texts have equal vectors, so equal scores
CosineSimilarities(query, docs) ==
    {s \in ScoreVectors(query, docs) :
        \A i, j \in 1..Len(docs) : docs[i] = docs[j] => s[i] = s[j]}

\* whether p is a permutation of 1..n
IsPermutation(p, n) ==
    /\ Len(p) = n
    /\ \A i \in 1..n : \E j \in 1..n : p[j] = i

\* np.argsort(a): the default sort is not stable, so any index order that
\* sorts a ascending is a possible result
Argsort(a) ==
    {p \in [1..Len(a) -> 1..Len(a)] :
        /\ IsPermutation(p, Len(a))
        /\ \A i, j \in 1..Len(a) : i < j => a[p[i]] <= a[p[j]]}

\* the reversal left out: np.argsort(similarities)
RankedIndices_ascending(sims) == Argsort(sims)

\* np.argsort(similarities)[::-1]
RankedIndices(sims) == {Reverse(p) : p \in Argsort(sims)}

\* the best document at every position: [documents[ranked_doc_indices[0]] for i in ...]
RankedDocs_first(docs, idx) == [k \in 1..Len(idx) |-> docs[idx[1]]]

\* [documents[i] for i in ranked_doc_indices]
RankedDocs(docs, idx) == [k \in 1..Len(idx) |-> docs[idx[k]]]

\* " ".join(docs[:2])
AssembleTop2(docs) == Join(" ", Take(docs, 2))

\* the marker test inverted: "liquidity risk" in generated_text
NeedsCorrection_inverted(text) == Contains(Marker, text)

\* "liquidity risk" not in generated_text
NeedsCorrection(text) == ~Contains(Marker, text)

(***************************************************************************)
(* The hybrid chatbot's data and functions.                                *)
(***************************************************************************)
\* the hard-coded retrieved_docs of retrieve_documents(query)
StaticDocs == <<
    "New York is famous for its pizza. Some popular spots include Joe's Pizza, Lombardi's, and Di Fara Pizza.",
    "New York pizza is known for its thin crust and unique flavor, often attributed to the city's water." >>

\* a retrieval that looks at the query: the texts are returned for a query
\* about pizza only
chat_retrieve_documents_filtered(query) ==
    IF Contains("pizza", Lower(query)) THEN StaticDocs ELSE <<>>

\* the chatbot's retrieve_documents(query): the query is not used
chat_retrieve_documents(query) == StaticDocs

\* f"User query: {user_input}\n\nContext:\n{context}"
CombinedInput(query, ctx) == "User query: " \o query \o "\n\nContext:\n" \o ctx

\* lines a user may type
Lines == {"exit", "Exit", "EXIT", "exit now", "Best Pizza in New York"}

InputScripts == UNION {[1..n -> Lines] : n \in 0..MaxLines}

\* what invoke_model may return: None after an exception of the client call or
\* of the JSON decoding, otherwise the decoded object.  A decoded object is
\* described by its keys, its 'results' list and the keys of each entry.
NoneResult == [none |-> TRUE, keys |-> {}, results |-> <<>>]

DictResult(keys, results) == [none |-> FALSE, keys |-> keys, results |-> results]

ModelResults == {
    NoneResult,
    DictResult({}, <<>>),
    DictResult({"message"}, <<>>),
    DictResult({"results"}, <<>>),
    DictResult({"results"}, <<[keys |-> {"outputText"}, outputText |-> "Joe's Pizza."]>>),
    DictResult({"results"}, <<[keys |-> {"outputText"}, outputText |-> ""]>>),
    DictResult({"results"}, <<[keys |-> {"tokenCount"}, outputText |-> ""]>>) }

\* Python truth value of a result: None and the empty dict are false
Truthy(r) == ~r.none /\ r.keys # {}

\* 'results' in result and result['results']
HasResults(r) == "results" \in r.keys /\ r.results # <<>>

(***************************************************************************)
(* The evaluation notebook's code cells.  A cell is the sequence of its    *)
(* statements; a statement is the names it reads (uses) and the names it   *)
(* binds (defs).  Names bound and read inside one expression, as the       *)
(* variable of a comprehension, are left out.                              *)
(***************************************************************************)
\* the built-in names the cells use
Builtins == {"print"}

Stmt(uses, defs) == [uses |-> uses, defs |-> defs]

\* import ... / from ... import ...: the names are bound, nothing is read
Import(names) == Stmt({}, names)

Cells == <<
    \* import os; from dotenv import ...; _ = load_dotenv(find_dotenv())
    << Import({"os"}), Import({"load_dotenv", "find_dotenv"}),
       Stmt({"load_dotenv", "find_dotenv"}, {"_"}) >>,
    \* import datetime; current_date; target_date; if ...: llm_model = ...
    << Import({"datetime"}), Stmt({"datetime"}, {"current_date"}),
       Stmt({"datetime"}, {"target_date"}),
       Stmt({"current_date", "target_date"}, {"llm_model"}) >>,
    \* the langchain imports
    << Import({"RetrievalQA"}), Import({"ChatOpenAI"}), Import({"CSVLoader"}),
       Import({"VectorstoreIndexCreator"}), Import({"DocArrayInMemorySearch"}) >>,
    \* file; loader = CSVLoader(file_path=file); data = loader.load()
    << Stmt({}, {"file"}), Stmt({"CSVLoader", "file"}, {"loader"}),
       Stmt({"loader"}, {"data"}) >>,
    \* embedding = HuggingFaceEmbeddings(...); index = VectorstoreIndexCreator(...)
    << Import({"HuggingFaceEmbeddings"}), Import({"DocArrayInMemorySearch"}),
       Import({"VectorstoreIndexCreator"}),
       Stmt({"HuggingFaceEmbeddings"}, {"embedding"}),
       Stmt({"VectorstoreIndexCreator", "DocArrayInMemorySearch", "embedding", "loader"},
            {"index"}) >>,
    \* import os; os.environ["OPENAI_API_KEY"] =   (no right-hand side: the
    \* cell is a SyntaxError and none of its statements is executed)
    << >>,
    \* llm = ChatOpenAI(...); qa = RetrievalQA.from_chain_type(...)
    << Stmt({"ChatOpenAI", "llm_model"}, {"llm"}),
       Stmt({"RetrievalQA", "llm", "index"}, {"qa"}) >>,
    \* data[10]
    << Stmt({"data"}, {}) >>,
    \* data[11]
    << Stmt({"data"}, {}) >>,
    \* examples = [...]
    << Stmt({}, {"examples"}) >>,
    \* from langchain.evaluation.qa import QAGenerateChain
    << Import({"QAGenerateChain"}) >>,
    \* example_gen_chain = QAGenerateChain.from_llm(ChatOpenAI(model=llm_model))
    << Stmt({"QAGenerateChain", "ChatOpenAI", "llm_model"}, {"example_gen_chain"}) >>,
    \* a comment only
    << >>,
    \* new_examples = example_gen_chain.apply_and_parse([... for t in data[:5]])
    << Stmt({"example_gen_chain", "data"}, {"new_examples"}) >>,
    \* new_examples[0]
    << Stmt({"new_examples"}, {}) >>,
    \* data[0]
    << Stmt({"data"}, {}) >>,
    \* examples += new_examples
    << Stmt({"examples", "new_examples"}, {"examples"}) >>,
    \* qa.run(examples[0]["query"])
    << Stmt({"qa", "examples"}, {}) >>,
    \* import langchain; langchain.debug = True
    << Import({"langchain"}), Stmt({"langchain"}, {}) >>,
    \* qa.run(examples[0]["query"])
    << Stmt({"qa", "examples"}, {}) >>,
    \* langchain.debug = False
    << Stmt({"langchain"}, {}) >>,
    \* examples = [...]; predictions = [...];
    \* graded_outputs = eval_chain.evaluate(examples, predictions); print(graded_outputs)
    << Stmt({}, {"examples"}), Stmt({}, {"predictions"}),
       Stmt({"eval_chain", "examples", "predictions"}, {"graded_outputs"}),
       Stmt({"print", "graded_outputs"}, {}) >>,
    \* from langchain.evaluation.qa import QAEvalChain
    << Import({"QAEvalChain"}) >>,
    \* llm = ChatOpenAI(temperature=0, model=llm_model); eval_chain = QAEvalChain.from_llm(llm)
    << Stmt({"ChatOpenAI", "llm_model"}, {"llm"}),
       Stmt({"QAEvalChain", "llm"}, {"eval_chain"}) >>,
    \* graded_outputs = eval_chain.evaluate(examples, predictions)
    << Stmt({"eval_chain", "examples", "predictions"}, {"graded_outputs"}) >>,
    \* graded_outputs[0]
    << Stmt({"graded_outputs"}, {}) >>,
    \* pip install sentence-transformers
    << >>,
    \* pip install docarray
    << >>,
    \* seven empty cells
    << >>, << >>, << >>, << >>, << >>, << >>, << >> >>

(***************************************************************************)
(* Initial state: one of the notebook cells is about to run.               *)
(***************************************************************************)
InitCorrective ==
    /\ notebook = "corrective"
    /\ pc = "retrieve"
    /\ database \in Databases
    /\ user_query \in Queries
    /\ stdin = <<>>
    /\ stdout = <<>>

\* the notebook cells that run chatbot()
ChatNotebooks == {"hybrid", "plain"}

InitChatbot ==
    /\ notebook \in ChatNotebooks
    /\ pc = "chat_start"
    /\ database = <<>>
    /\ user_query = ""
    /\ stdin \in InputScripts
    /\ stdout = <<>>

\* the evaluation notebook in a fresh kernel, no cell executed yet
InitEvaluation ==
    /\ notebook = "evaluation"
    /\ pc = "cells"
    /\ database = <<>>
    /\ user_query = ""
    /\ stdin = <<>>
    /\ stdout = <<>>

Init ==
    /\ InitCorrective \/ InitChatbot \/ InitEvaluation
    /\ documents = <<>>
    /\ similarities = <<>>
    /\ ranked_doc_indices = <<>>
    /\ ranked_docs = <<>>
    /\ context = ""
    /\ generated_text = ""
    /\ additional_docs = <<>>
    /\ additional_context = ""
    /\ final_response = ""
    /\ responses = <<>>
    /\ read_lines = <<>>
    /\ user_input = ""
    /\ retrieved_docs = <<>>
    /\ chat_context = ""
    /\ combined_input = ""
    /\ result = NoneResult
    /\ generate_calls = <<>>
    /\ generate_outputs = <<>>
    /\ raised = ""
    /\ cell = 0
    /\ namespace = Builtins
    /\ name_errors = <<>>

(***************************************************************************)
(* The corrective notebook cell, statement by statement.                   *)
(***************************************************************************)
RECURSIVE Unmatched(_, _)
\* the documents of db none of whose tags occurs in the query
Unmatched(query, db) ==
    IF db = <<>> THEN <<>>
    ELSE IF AnyTagIn(Head(db).metadata, query)
         THEN Unmatched(query, Tail(db))
         ELSE <<Head(db)>> \o Unmatched(query, Tail(db))

\* a retrieval that takes the documents it returns out of the database
RetrieveDocuments_popping ==
    /\ notebook = "corrective" /\ pc = "retrieve"
    /\ documents' = retrieve_documents(user_query, database)
    /\ database' = Unmatched(user_query, database)
    /\ pc' = "vectorize"
    /\ UNCHANGED <<notebook, user_query, similarities, ranked_doc_indices,
                   ranked_docs, context, generated_text, additional_docs,
                   additional_context, final_response, generate_calls, generate_outputs, raised,
                   chatVars, read_lines, responses, nbVars>>

\* documents = retrieve_documents(user_query, database)
RetrieveDocuments ==
    /\ notebook = "corrective" /\ pc = "retrieve"
    /\ documents' = retrieve_documents(user_query, database)
    /\ pc' = "vectorize"
    /\ UNCHANGED <<notebook, database, user_query, similarities, ranked_doc_indices,
                   ranked_docs, context, generated_text, additional_docs,
                   additional_context, final_response, generate_calls, generate_outputs, raised,
                   chatVars, read_lines, responses, nbVars>>

\* doc_vectors = vectorizer.fit_transform(documents) raises ValueError on an
\* empty vocabulary; query_vector = vectorizer.transform([user_query])
Vectorize ==
    /\ notebook = "corrective" /\ pc = "vectorize"
    /\ IF Vocabulary(documents) = {}
       THEN pc' = "raised" /\ raised' = "fit_transform"
       ELSE pc' = "similarity" /\ raised' = raised
    /\ UNCHANGED <<notebook, corrVars, chatVars, read_lines, responses, generate_calls, generate_outputs, nbVars>>

\* similarities = cosine_similarity(query_vector, doc_vectors).flatten()
Similarity ==
    /\ notebook = "corrective" /\ pc = "similarity"
    /\ similarities' \in CosineSimilarities(user_query, documents)
    /\ pc' = "argsort"
    /\ UNCHANGED <<notebook, database, user_query, documents, ranked_doc_indices,
                   ranked_docs, context, generated_text, additional_docs,
                   additional_context, final_response, generate_calls, generate_outputs, raised,
                   chatVars, read_lines, responses, nbVars>>

\* ranked_doc_indices = np.argsort(similarities)[::-1]
\* ranked_docs = [documents[i] for i in ranked_doc_indices]
Rank ==
    /\ notebook = "corrective" /\ pc = "argsort"
    /\ ranked_doc_indices' \in RankedIndices(similarities)
    /\ ranked_docs' = RankedDocs(documents, ranked_doc_indices')
    /\ pc' = "context"
    /\ UNCHANGED <<notebook, database, user_query, documents, similarities,
                   context, generated_text, additional_docs,
                   additional_context, final_response, generate_calls, generate_outputs, raised,
                   chatVars, read_lines, responses, nbVars>>

\* context = " ".join(ranked_docs[:2])
AssembleContext ==
    /\ notebook = "corrective" /\ pc = "context"
    /\ context' = AssembleTop2(ranked_docs)
    /\ pc' = "generate"
    /\ UNCHANGED <<notebook, database, user_query, documents, similarities,
                   ranked_doc_indices, ranked_docs, generated_text, additional_docs,
                   additional_context, final_response, generate_calls, generate_outputs, raised,
                   chatVars, read_lines, responses, nbVars>>

\* input_ids = tokenizer.encode(context); output = model.generate(input_ids, ...);
\* generated_text = tokenizer.decode(output[0], ...).  The model is an external
\* collaborator: it returns some text, or the call raises.
Generate ==
    /\ notebook = "corrective" /\ pc = "generate"
    /\ generate_calls' = Append(generate_calls, context)
    /\ \/ \E out \in GenOutputs :
            /\ generated_text' = out
            /\ generate_outputs' = Append(generate_outputs, out)
            /\ pc' = "corrective_rag"
            /\ raised' = raised
       \/ /\ generated_text' = generated_text
          /\ generate_outputs' = generate_outputs
          /\ pc' = "raised"
          /\ raised' = "generate"
    /\ UNCHANGED <<notebook, database, user_query, documents, similarities,
                   ranked_doc_indices, ranked_docs, context, additional_docs,
                   additional_context, final_response, chatVars, read_lines, responses, nbVars>>

\* the retry without its re-assembly: the second generation follows the
\* re-retrieval at once
CorrectiveCheck_direct ==
    /\ notebook = "corrective" /\ pc = "corrective_rag"
    /\ IF NeedsCorrection(generated_text)
       THEN /\ additional_docs' = retrieve_documents(Marker, database)
            /\ pc' = "cr_generate"
            /\ final_response' = final_response
       ELSE /\ final_response' = generated_text
            /\ pc' = "done"
            /\ additional_docs' = additional_docs
    /\ UNCHANGED <<notebook, database, user_query, documents, similarities,
                   ranked_doc_indices, ranked_docs, context, generated_text,
                   additional_context, generate_calls, generate_outputs, raised, chatVars, read_lines, responses, nbVars>>

\* the retry with the query of the user: retrieve_documents(user_query, database)
CorrectiveCheck_requery ==
    /\ notebook = "corrective" /\ pc = "corrective_rag"
    /\ IF NeedsCorrection(generated_text)
       THEN /\ additional_docs' = retrieve_documents(user_query, database)
            /\ pc' = "cr_context"
            /\ final_response' = final_response
       ELSE /\ final_response' = generated_text
            /\ pc' = "done"
            /\ additional_docs' = additional_docs
    /\ UNCHANGED <<notebook, database, user_query, documents, similarities,
                   ranked_doc_indices, ranked_docs, context, generated_text,
                   additional_context, generate_calls, generate_outputs, raised, chatVars, read_lines, responses, nbVars>>

\* corrective_rag(generated_text, database), the marker check: with the marker
\* present the text is returned as it is; otherwise
\* additional_docs = retrieve_documents("liquidity risk", database)
CorrectiveCheck ==
    /\ notebook = "corrective" /\ pc = "corrective_rag"
    /\ IF NeedsCorrection(generated_text)
       THEN /\ additional_docs' = retrieve_documents(Marker, database)
            /\ pc' = "cr_context"
            /\ final_response' = final_response
       ELSE /\ final_response' = generated_text
            /\ pc' = "done"
            /\ additional_docs' = additional_docs
    /\ UNCHANGED <<notebook, database, user_query, documents, similarities,
                   ranked_doc_indices, ranked_docs, context, generated_text,
                   additional_context, generate_calls, generate_outputs, raised, chatVars, read_lines, responses, nbVars>>

\* additional_context = " ".join(additional_docs[:2])
CorrectiveAssemble ==
    /\ notebook = "corrective" /\ pc = "cr_context"
    /\ additional_context' = AssembleTop2(additional_docs)
    /\ pc' = "cr_generate"
    /\ UNCHANGED <<notebook, database, user_query, documents, similarities,
                   ranked_doc_indices, ranked_docs, context, generated_text,
                   additional_docs, final_response, generate_calls, generate_outputs, raised, chatVars, read_lines, responses, nbVars>>

\* the retry written as a loop: the second text goes back to the marker check
CorrectiveGenerate_recheck ==
    /\ notebook = "corrective" /\ pc = "cr_generate"
    /\ Len(generate_calls) < 4
    /\ generate_calls' = Append(generate_calls, additional_context)
    /\ \E out \in GenOutputs :
        /\ generated_text' = out
        /\ generate_outputs' = Append(generate_outputs, out)
    /\ pc' = "corrective_rag"
    /\ UNCHANGED <<notebook, database, user_query, documents, similarities,
                   ranked_doc_indices, ranked_docs, context, additional_docs,
                   additional_context, final_response, raised, chatVars, read_lines, responses, nbVars>>

\* the second text appended to the first: return generated_text + decoded
CorrectiveGenerate_merge ==
    /\ notebook = "corrective" /\ pc = "cr_generate"
    /\ generate_calls' = Append(generate_calls, additional_context)
    /\ \E out \in GenOutputs :
            /\ final_response' = generated_text \o out
            /\ generate_outputs' = Append(generate_outputs, out)
    /\ pc' = "done"
    /\ UNCHANGED <<notebook, database, user_query, documents, similarities,
                   ranked_doc_indices, ranked_docs, context, generated_text,
                   additional_docs, additional_context, raised, chatVars, read_lines, responses, nbVars>>

\* input_ids = tokenizer.encode(additional_context); output = model.generate(...);
\* return tokenizer.decode(output[0], ...), assigned to final_response
CorrectiveGenerate ==
    /\ notebook = "corrective" /\ pc = "cr_generate"
    /\ generate_calls' = Append(generate_calls, additional_context)
    /\ \/ \E out \in GenOutputs :
            /\ final_response' = out
            /\ generate_outputs' = Append(generate_outputs, out)
            /\ pc' = "done"
            /\ raised' = raised
       \/ /\ final_response' = final_response
          /\ generate_outputs' = generate_outputs
          /\ pc' = "raised"
          /\ raised' = "corrective_generate"
    /\ UNCHANGED <<notebook, database, user_query, documents, similarities,
                   ranked_doc_indices, ranked_docs, context, generated_text,
                   additional_docs, additional_context, chatVars, read_lines, responses, nbVars>>

\* the regeneration of the response for every request
assess_liquidity_risk_regenerate ==
    /\ notebook = "corrective" /\ pc = "done"
    /\ Len(responses) < MaxRequests
    /\ generate_calls' = Append(generate_calls, context)
    /\ \E out \in GenOutputs :
        /\ final_response' = out
        /\ generate_outputs' = Append(generate_outputs, out)
        /\ responses' = Append(responses, [query |-> user_query, response |-> out])
    /\ UNCHANGED <<notebook, pc, database, user_query, documents, similarities,
                   ranked_doc_indices, ranked_docs, context, generated_text,
                   additional_docs, additional_context, chatVars, read_lines, raised, nbVars>>

\* @app.get("/assess_liquidity_risk"): a request is served once the cell has
\* run to its end; return {"query": user_query, "response": final_response}
assess_liquidity_risk ==
    /\ notebook = "corrective" /\ pc = "done"
    /\ Len(responses) < MaxRequests
    /\ responses' = Append(responses, [query |-> user_query, response |-> final_response])
    /\ UNCHANGED <<notebook, pc, nbVars, corrVars, chatVars, read_lines, generate_calls,
                   generate_outputs, raised>>

(***************************************************************************)
(* The chatbot cells: chatbot().  The hybrid cell retrieves and assembles  *)
(* a context for every line; the plain cell sends the line as it is.       *)
(***************************************************************************)
\* print("Chatbot is now running. Type 'exit' to end the chat.")
ChatStart ==
    /\ notebook \in ChatNotebooks /\ pc = "chat_start"
    /\ stdout' = Append(stdout, "Chatbot is now running. Type 'exit' to end the chat.")
    /\ pc' = "chat_input"
    /\ UNCHANGED <<notebook, nbVars, corrVars, responses, stdin, read_lines, user_input,
                   retrieved_docs, chat_context, combined_input, result,
                   generate_calls, generate_outputs, raised>>

\* the sentinel compared as typed: user_input == 'exit'
IsSentinel_cased(line) == line = "exit"

\* the sentinel never recognised
IsSentinel_never(line) == FALSE

\* user_input.lower() == 'exit'
IsSentinel(line) == Lower(line) = "exit"

\* a line accepted while the reply to the line before it is still to be printed
ChatInput_eager ==
    /\ notebook \in ChatNotebooks /\ pc \in {"chat_input", "chat_print"}
    /\ stdin # <<>>
    /\ user_input' = Head(stdin)
    /\ stdin' = Tail(stdin)
    /\ read_lines' = Append(read_lines, Head(stdin))
    /\ IF IsSentinel(user_input')
       THEN /\ stdout' = Append(stdout, "Chatbot session ended.")
            /\ pc' = "chat_ended"
       ELSE /\ stdout' = stdout
            /\ pc' = IF notebook = "hybrid" THEN "chat_retrieve" ELSE "chat_invoke"
    /\ UNCHANGED <<notebook, nbVars, corrVars, responses, retrieved_docs, chat_context,
                   combined_input, result, generate_calls, generate_outputs, raised>>

\* user_input = input("You: "); if user_input.lower() == 'exit': print, break.
\* With no line left to read the loop waits in input().
ChatInput ==
    /\ notebook \in ChatNotebooks /\ pc = "chat_input"
    /\ stdin # <<>>
    /\ user_input' = Head(stdin)
    /\ stdin' = Tail(stdin)
    /\ read_lines' = Append(read_lines, Head(stdin))
    /\ IF IsSentinel(user_input')
       THEN /\ stdout' = Append(stdout, "Chatbot session ended.")
            /\ pc' = "chat_ended"
       ELSE /\ stdout' = stdout
            /\ pc' = IF notebook = "hybrid" THEN "chat_retrieve" ELSE "chat_invoke"
    /\ UNCHANGED <<notebook, nbVars, corrVars, responses, retrieved_docs, chat_context,
                   combined_input, result, generate_calls, generate_outputs, raised>>

\* retrieved_docs = retrieve_documents(user_input)
ChatRetrieve ==
    /\ notebook = "hybrid" /\ pc = "chat_retrieve"
    /\ retrieved_docs' = chat_retrieve_documents(user_input)
    /\ pc' = "chat_context"
    /\ UNCHANGED <<notebook, nbVars, corrVars, responses, stdin, read_lines, user_input,
                   chat_context, combined_input, result, stdout, generate_calls,
                   generate_outputs, raised>>

\* context = "\n".join(retrieved_docs); combined_input = f"User query: ..."
ChatAssemble ==
    /\ notebook = "hybrid" /\ pc = "chat_context"
    /\ chat_context' = Join("\n", retrieved_docs)
    /\ combined_input' = CombinedInput(user_input, chat_context')
    /\ pc' = "chat_invoke"
    /\ UNCHANGED <<notebook, nbVars, corrVars, responses, stdin, read_lines, user_input,
                   retrieved_docs, result, stdout, generate_calls, generate_outputs,
                   raised>>

\* the argument of invoke_model: combined_input in the hybrid cell, user_input
\* in the plain cell
PromptText == IF notebook = "hybrid" THEN combined_input ELSE user_input

\* invoke_model called a second time after a call that returned None
ChatInvoke_retry ==
    /\ notebook \in ChatNotebooks /\ pc = "chat_invoke"
    /\ \E r \in ModelResults :
        /\ result' = r
        /\ generate_calls' = IF r.none THEN generate_calls \o <<PromptText, PromptText>>
                                       ELSE Append(generate_calls, PromptText)
        /\ stdout' = IF r.none THEN Append(stdout, "Error invoking model: e") ELSE stdout
    /\ pc' = "chat_print"
    /\ UNCHANGED <<notebook, nbVars, corrVars, responses, stdin, read_lines, user_input,
                   retrieved_docs, chat_context, combined_input, generate_outputs,
                   raised>>

\* result = invoke_model(...): an exception inside the try block is printed
\* and None is returned
ChatInvoke ==
    /\ notebook \in ChatNotebooks /\ pc = "chat_invoke"
    /\ generate_calls' = Append(generate_calls, PromptText)
    /\ \E r \in ModelResults :
        /\ result' = r
        /\ stdout' = IF r.none THEN Append(stdout, "Error invoking model: e") ELSE stdout
    /\ pc' = "chat_print"
    /\ UNCHANGED <<notebook, nbVars, corrVars, responses, stdin, read_lines, user_input,
                   retrieved_docs, chat_context, combined_input, generate_outputs,
                   raised>>

\* the two apologies of the loop
SorryNoResponse == "Chatbot: Sorry, I couldn't generate a response."

SorryIssue == "Chatbot: Sorry, there was an issue processing your request."

\* the loop left after a call that returned None
ChatPrint_failstop ==
    /\ notebook \in ChatNotebooks /\ pc = "chat_print"
    /\ IF result.none
       THEN /\ stdout' = Append(stdout, SorryIssue)
            /\ pc' = "chat_ended"
       ELSE /\ stdout' = Append(stdout, SorryNoResponse)
            /\ pc' = "chat_input"
    /\ UNCHANGED <<notebook, nbVars, corrVars, responses, stdin, read_lines, user_input,
                   retrieved_docs, chat_context, combined_input, result,
                   generate_calls, generate_outputs, raised>>

\* the reply: the generated text, or one of the two apologies; a first entry
\* without 'outputText' raises KeyError out of chatbot()
ChatPrint ==
    /\ notebook \in ChatNotebooks /\ pc = "chat_print"
    /\ IF Truthy(result)
       THEN IF HasResults(result)
            THEN IF "outputText" \in result.results[1].keys
                 THEN /\ stdout' = Append(stdout, "Chatbot: " \o result.results[1].outputText)
                      /\ pc' = "chat_input"
                      /\ raised' = raised
                 ELSE /\ stdout' = stdout
                      /\ pc' = "raised"
                      /\ raised' = "outputText"
            ELSE /\ stdout' = Append(stdout, SorryNoResponse)
                 /\ pc' = "chat_input"
                 /\ raised' = raised
       ELSE /\ stdout' = Append(stdout, SorryIssue)
            /\ pc' = "chat_input"
            /\ raised' = raised
    /\ UNCHANGED <<notebook, nbVars, corrVars, responses, stdin, read_lines, user_input,
                   retrieved_docs, chat_context, combined_input, result,
                   generate_calls, generate_outputs>>

(***************************************************************************)
(* The evaluation notebook: its code cells executed once each, in the      *)
(* order in which they stand in the document.                              *)
(***************************************************************************)
RECURSIVE RunStatements(_, _)
\* the statements of a cell executed in order in the namespace ns: a statement
\* that uses a name that is not bound raises NameError, which ends the cell;
\* what the statements before it have bound stays bound
RunStatements(stmts, ns) ==
    IF stmts = <<>> THEN [namespace |-> ns, unbound |-> {}]
    ELSE IF Head(stmts).uses \subseteq ns
         THEN RunStatements(Tail(stmts), ns \cup Head(stmts).defs)
         ELSE [namespace |-> ns, unbound |-> Head(stmts).uses \ ns]

\* the next code cell of the document is executed
RunCell ==
    /\ notebook = "evaluation" /\ pc = "cells"
    /\ cell < Len(Cells)
    /\ LET r == RunStatements(Cells[cell + 1], namespace)
       IN  /\ namespace' = r.namespace
           /\ name_errors' = IF r.unbound = {} THEN name_errors
                              ELSE Append(name_errors, [cell |-> cell + 1, names |-> r.unbound])
    /\ cell' = cell + 1
    /\ UNCHANGED <<notebook, pc, corrVars, responses, chatVars, read_lines,
                   generate_calls, generate_outputs, raised>>

Next ==
    \/ RetrieveDocuments
    \/ Vectorize
    \/ Similarity
    \/ Rank
    \/ AssembleContext
    \/ Generate
    \/ CorrectiveCheck
    \/ CorrectiveAssemble
    \/ CorrectiveGenerate
    \/ assess_liquidity_risk
    \/ ChatStart
    \/ ChatInput
    \/ ChatRetrieve
    \/ ChatAssemble
    \/ ChatInvoke
    \/ ChatPrint
    \/ RunCell

Spec == Init /\ [][Next]_vars

\* the statements of corrective_rag and of its call
\* a statement of corrective_rag completes and control moves on; under Next
\* such a step is a step of CorrectiveCheck, CorrectiveAssemble or
\* CorrectiveGenerate, and one of the three is enabled at each of these places
CorrectiveRagStep ==
    /\ notebook = "corrective"
    /\ pc \in {"corrective_rag", "cr_context", "cr_generate"}
    /\ pc' \in {"cr_context", "cr_generate", "done", "raised"}
    /\ pc' # pc

\* the interpreter goes on to the next statement of corrective_rag whenever
\* there is one: a call of the generator returns or raises
FairSpec == Spec /\ WF_pc(CorrectiveRagStep)

(***************************************************************************)
(* Properties of the corrective retry.                                     *)
(***************************************************************************)
Corrective == notebook = "corrective"

\* C1: when the first generated text lacks the marker "liquidity risk", exactly
\* one more generation call is made, and its prompt is the context assembled
\* from the re-retrieved documents; when the first text contains the marker,
\* no further generation call is made.
C1_OneRetryIffMarkerMissing ==
    Corrective =>
        /\ Len(generate_calls) >= 2 =>
                /\ Len(generate_calls) = 2
                /\ ~Contains(Marker, generate_outputs[1])
                /\ generate_calls[2] = additional_context
                /\ additional_context = Join(" ", Take(additional_docs, 2))
                /\ additional_docs = retrieve_documents(Marker, database)
        /\ (pc = "done" /\ ~Contains(Marker, generate_outputs[1])) => Len(generate_calls) = 2
        /\ (pc = "done" /\ Contains(Marker, generate_outputs[1])) => Len(generate_calls) = 1

\* a run that ended after a retry
C1_Witness ==
    /\ Corrective /\ pc = "done"
    /\ ~Contains(Marker, generate_outputs[1])
    /\ Len(generate_calls) = 2
    /\ additional_docs # <<>>

\* C2: whatever the generator returns, it is called at most twice in a run, and
\* the second text it returns is the final response at once: no check and no
\* further attempt follows, also when that text lacks the marker.
C2_AtMostOneRetry ==
    Corrective =>
        /\ Len(generate_calls) <= 2
        /\ Len(generate_outputs) = 2 => (pc = "done" /\ final_response = generate_outputs[2])

\* a run whose second text lacks the marker too
C2_Witness ==
    /\ Corrective /\ pc = "done"
    /\ Len(generate_outputs) = 2
    /\ ~Contains(Marker, generate_outputs[1])
    /\ ~Contains(Marker, generate_outputs[2])
    /\ generate_outputs[1] # generate_outputs[2]

(***************************************************************************)
(* Properties of the keyword retrieval.                                    *)
(***************************************************************************)
\* documents holds the result of the first retrieval
FirstRetrieved == Corrective /\ pc # "retrieve"

\* retrieve_documents(user_query, database) has just returned into documents
JustRetrieved == Corrective /\ pc = "vectorize"

\* retrieve_documents("liquidity risk", database) has just returned into
\* additional_docs
JustReRetrieved == Corrective /\ pc = "cr_context"

\* the tokens of the lower-cased query
Tokens(q) == LET t == preprocess_text(q) IN {t[k] : k \in 1..Len(t)}

TagSet(doc) == {doc.metadata[k] : k \in 1..Len(doc.metadata)}

\* every returned text is the text of a stored document one of whose tags is
\* a token of the query
OnlyTokenMatches(q, res) ==
    \E toks \in {Tokens(q)} :
        \A i \in 1..Len(res) :
            \E j \in 1..Len(database) :
                /\ database[j].text = res[i]
                /\ TagSet(database[j]) \cap toks # {}

\* every returned text is the text of a stored document one of whose tags
\* occurs as a contiguous substring of the lower-cased query
OnlySubstringMatches(q, res) ==
    \E lowered \in {Lower(q)} :
        \A i \in 1..Len(res) :
            \E j \in 1..Len(database) :
                /\ database[j].text = res[i]
                /\ \E tag \in TagSet(database[j]) : Contains(tag, lowered)

RECURSIVE TextsFrom(_, _)
\* the texts of the stored documents at the positions of S from j on, in
\* insertion order
TextsFrom(S, j) ==
    IF j > Len(database) THEN <<>>
    ELSE (IF j \in S THEN <<database[j].text>> ELSE <<>>) \o TextsFrom(S, j + 1)

\* res lists stored documents in insertion order, each position at most once,
\* and among them every document one of whose tags is a token of the query
EveryTokenMatchInOrder(q, res) ==
    \E toks \in {Tokens(q)} :
        \E S \in SUBSET (1..Len(database)) :
            /\ res = TextsFrom(S, 1)
            /\ \A j \in 1..Len(database) :
                   TagSet(database[j]) \cap toks # {} => j \in S

\* C3 as stated: retrieve returns only documents whose tag set intersects the
\* set of tokens of the query.
C3_OnlyTokenMatches ==
    /\ JustRetrieved => OnlyTokenMatches(user_query, documents)
    /\ JustReRetrieved => OnlyTokenMatches(Marker, additional_docs)

\* C3 amended: retrieve returns only texts of documents of the database at
\* least one of whose tags occurs as a contiguous substring of the lower-cased
\* query.
C3_OnlySubstringMatches ==
    /\ JustRetrieved => OnlySubstringMatches(user_query, documents)
    /\ JustReRetrieved => OnlySubstringMatches(Marker, additional_docs)

\* a document was returned none of whose tags is a token of the query
C3_Witness ==
    /\ JustRetrieved
    /\ documents # <<>>
    /\ ~OnlyTokenMatches(user_query, documents)

\* C4: retrieve returns every document whose tag set intersects the tokens of
\* the lower-cased query, and the returned documents are in the insertion
\* order of the database.
C4_EveryTokenMatchInOrder ==
    /\ JustRetrieved => EveryTokenMatchInOrder(user_query, documents)
    /\ JustReRetrieved => EveryTokenMatchInOrder(Marker, additional_docs)

\* two or more documents were returned, one was not, and a tag was a token
C4_Witness ==
    /\ JustRetrieved
    /\ Len(documents) >= 2
    /\ Len(documents) < Len(database)
    /\ documents[1] # documents[2]
    /\ \E j \in 1..Len(database) : TagSet(database[j]) \cap Tokens(user_query) # {}

\* C10: on an empty database retrieve returns the empty list for every query,
\* and the retrieval statement does not raise.
C10_EmptyDatabase ==
    (FirstRetrieved /\ database = <<>>) =>
        /\ documents = <<>>
        /\ pc = "vectorize" => raised = ""
        /\ raised # "retrieve_documents"

\* the retrieval over an empty database has returned
C10_Witness ==
    /\ Corrective /\ pc = "vectorize"
    /\ database = <<>>
    /\ documents = <<>>
    /\ raised = ""

(***************************************************************************)
(* Properties of the similarity ranking.                                   *)
(***************************************************************************)
\* ranked_doc_indices and ranked_docs hold the ranking
Ranked ==
    /\ Corrective
    /\ \/ pc \in {"context", "generate", "corrective_rag", "cr_context", "cr_generate", "done"}
       \/ pc = "raised" /\ raised \in {"generate", "corrective_generate"}

\* the score of the document at position k of the ranked list
RankedScore(k) == similarities[ranked_doc_indices[k]]

\* C5: the ranked list is ordered by non-increasing similarity score: for any
\* two positions i < j, score(ranked[i]) >= score(ranked[j]).
C5_RankedByNonIncreasingScore ==
    Ranked =>
        /\ \A k \in 1..Len(ranked_docs) : ranked_docs[k] = documents[ranked_doc_indices[k]]
        /\ \A i, j \in 1..Len(ranked_docs) : i < j => RankedScore(i) >= RankedScore(j)

\* a ranking that had to move a later, better document to the front
C5_Witness ==
    /\ Ranked
    /\ Len(documents) >= 3
    /\ similarities[1] < similarities[2]
    /\ ranked_doc_indices[1] # 1

\* C6 as stated: the ranking is stable: of two documents with equal scores the
\* one with the lower original index comes first, so with all scores zero the
\* ranked list is the original document order.
C6_StableTies ==
    Ranked =>
        /\ \A i, j \in 1..Len(ranked_doc_indices) :
               (i < j /\ RankedScore(i) = RankedScore(j))
                   => ranked_doc_indices[i] < ranked_doc_indices[j]
        /\ (\A k \in 1..Len(similarities) : similarities[k] = 0) => ranked_docs = documents

(***************************************************************************)
(* Properties of the context assembly.                                     *)
(***************************************************************************)
\* context holds the first assembled context
Assembled ==
    /\ Corrective
    /\ \/ pc \in {"generate", "corrective_rag", "cr_context", "cr_generate", "done"}
       \/ pc = "raised" /\ raised \in {"generate", "corrective_generate"}

\* additional_context holds the context of the retry
RetryAssembled == Corrective /\ (pc = "cr_generate" \/ Len(generate_calls) = 2)

\* chat_context holds the context built for the line read last
ChatAssembled == notebook = "hybrid" /\ pc \in {"chat_invoke", "chat_print"}

RECURSIVE Offset(_, _, _)
\* the number of characters before the k-th text in the joined string
Offset(texts, sep, k) ==
    IF k = 1 THEN 0
    ELSE Offset(texts, sep, k - 1) + Len(texts[k - 1]) + Len(sep)

\* ctx is the texts in the given order, one after the other, with sep between
\* neighbours and nothing else
IsJoined(ctx, texts, sep) ==
    LET n == Len(texts)
    IN  /\ Len(ctx) = IF n = 0 THEN 0 ELSE Offset(texts, sep, n) + Len(texts[n])
        /\ \A k \in 1..n :
               SubSeq(ctx, Offset(texts, sep, k) + 1,
                           Offset(texts, sep, k) + Len(texts[k])) = texts[k]
        /\ \A k \in 1..(n - 1) :
               SubSeq(ctx, Offset(texts, sep, k) + Len(texts[k]) + 1,
                           Offset(texts, sep, k + 1)) = sep

\* C7: an assembled context is the separator-joined concatenation of the texts
\* handed to the assembler, in their order, none dropped, merged or moved.
C7_ContextIsJoinedTexts ==
    /\ Assembled => IsJoined(context, Take(ranked_docs, 2), " ")
    /\ RetryAssembled => IsJoined(additional_context, Take(additional_docs, 2), " ")
    /\ ChatAssembled => IsJoined(chat_context, retrieved_docs, "\n")

\* a context built from the same text twice
C7_Witness ==
    /\ Assembled
    /\ Len(ranked_docs) >= 2
    /\ ranked_docs[1] = ranked_docs[2]
    /\ context = ranked_docs[1] \o " " \o ranked_docs[2]

RECURSIVE SplitFrom(_, _, _)
\* the pieces of s from position i on, cut at the occurrences of the
\* character sep
SplitFrom(s, sep, i) ==
    LET cuts == {j \in i..Len(s) : SubSeq(s, j, j) = sep}
    IN  IF cuts = {} THEN <<SubSeq(s, i, Len(s))>>
        ELSE <<SubSeq(s, i, MinOf(cuts) - 1)>> \o SplitFrom(s, sep, MinOf(cuts) + 1)

\* str.split(sep) for a one-character separator: the pieces between the
\* occurrences of sep, empty pieces kept, so "".split(sep) is [""]
Split(s, sep) == SplitFrom(s, sep, 1)

\* splitting ctx by sep gives back the texts
RoundTrip(ctx, texts, sep) == Split(ctx, sep) = texts

\* C8 as stated: splitting the assembled string by the separator reproduces
\* the sequence of texts, the empty sequence included.
C8_RoundTrip ==
    /\ Assembled => RoundTrip(context, Take(ranked_docs, 2), " ")
    /\ RetryAssembled => RoundTrip(additional_context, Take(additional_docs, 2), " ")
    /\ ChatAssembled => RoundTrip(chat_context, retrieved_docs, "\n")

\* a non-empty sequence of texts none of which contains the separator
Splittable(texts, sep) ==
    /\ texts # <<>>
    /\ \A k \in 1..Len(texts) : ~Contains(sep, texts[k])

\* C8 amended: for a non-empty sequence of texts none of which contains the
\* separator, splitting the assembled string by the separator reproduces the
\* sequence of texts.
C8_RoundTripWithoutSeparator ==
    /\ (Assembled /\ Splittable(Take(ranked_docs, 2), " "))
           => RoundTrip(context, Take(ranked_docs, 2), " ")
    /\ (RetryAssembled /\ Splittable(Take(additional_docs, 2), " "))
           => RoundTrip(additional_context, Take(additional_docs, 2), " ")
    /\ (ChatAssembled /\ Splittable(retrieved_docs, "\n"))
           => RoundTrip(chat_context, retrieved_docs, "\n")

\* a context of two different texts without a blank
C8_Witness ==
    /\ Assembled
    /\ Len(ranked_docs) >= 2
    /\ ranked_docs[1] # ranked_docs[2]
    /\ Splittable(Take(ranked_docs, 2), " ")
    /\ Split(context, " ") = <<ranked_docs[1], ranked_docs[2]>>

\* the lists that can be made of the selected texts
SelectedLists(selected) ==
    UNION {[1..n -> {selected[k] : k \in 1..Len(selected)}] : n \in 0..Len(selected)}

\* no text of L stands before a text the ranking scored higher
InRankedOrder(L) ==
    \A a, b \in 1..Len(L) :
        a < b => \A i, j \in 1..Len(documents) :
                     (documents[i] = L[a] /\ documents[j] = L[b])
                         => similarities[i] >= similarities[j]

\* ctx is made of selected texts only, in ranked order
BuiltInRankedOrder(ctx, selected) ==
    \E L \in SelectedLists(selected) : ctx = Join(" ", L) /\ InRankedOrder(L)

C11_EmptyRetrievalProceeds ==
    (FirstRetrieved /\ documents = <<>>) =>
        /\ raised = "" \/ generate_calls # <<>>
        /\ Assembled => context = ""
        /\ generate_calls # <<>> => generate_calls[1] = ""

(***************************************************************************)
(* Properties of the interactive loop.                                     *)
(***************************************************************************)
ChatLoop == notebook \in ChatNotebooks

\* the spellings of "exit" in upper-case and lower-case letters
ExitSpellings ==
    {e \o x \o i \o t : e \in {"e", "E"}, x \in {"x", "X"}, i \in {"i", "I"}, t \in {"t", "T"}}

\* the line read last
LastRead == read_lines[Len(read_lines)]

\* the number of lines read that are no spelling of "exit"
NonSentinelRead ==
    Cardinality({k \in 1..Len(read_lines) : read_lines[k] \notin ExitSpellings})

\* C12: if the first line the loop reads is "exit", the loop ends at once: no
\* further line is read, the generator is not invoked and nothing is retrieved.
C12_ExitFirstEndsAtOnce ==
    (ChatLoop /\ read_lines # <<>> /\ read_lines[1] = "exit") =>
        /\ pc = "chat_ended"
        /\ Len(read_lines) = 1
        /\ generate_calls = <<>>
        /\ retrieved_docs = <<>>
        /\ raised = ""

\* "exit" was read first and the lines after it stay unread
C12_Witness ==
    /\ ChatLoop /\ pc = "chat_ended"
    /\ read_lines = <<"exit">>
    /\ stdin # <<>>
    /\ generate_calls = <<>>

\* C13: the loop takes its break on a line exactly when that line is "exit" in
\* any mix of upper and lower case; a line read after such a line does not
\* exist, and the generator has been invoked for no more than the other lines.
C13_EndsExactlyOnSentinel ==
    ChatLoop =>
        /\ pc = "chat_ended" <=> (read_lines # <<>> /\ LastRead \in ExitSpellings)
        /\ \A k \in 1..(Len(read_lines) - 1) : read_lines[k] \notin ExitSpellings
        /\ Len(generate_calls) <= NonSentinelRead

\* the loop ended on "EXIT" with a line left unread
C13_Witness ==
    /\ ChatLoop /\ pc = "chat_ended"
    /\ Len(read_lines) >= 1
    /\ LastRead = "EXIT"
    /\ stdin # <<>>

\* C14: every line read that is no sentinel causes exactly one generator
\* invocation, whose prompt holds that line: between two lines the number of
\* invocations is the number of non-sentinel lines read.
C14_OneCallPerQuery ==
    ChatLoop =>
        /\ pc \in {"chat_start", "chat_input", "chat_ended", "chat_print", "raised"}
               => Len(generate_calls) = NonSentinelRead
        /\ pc \in {"chat_retrieve", "chat_context", "chat_invoke"}
               => Len(generate_calls) = NonSentinelRead - 1
        /\ \A k \in 1..Len(generate_calls) : Contains(read_lines[k], generate_calls[k])

\* two queries answered, the first of them after a failed call
C14_Witness ==
    /\ ChatLoop /\ pc = "chat_print"
    /\ Len(read_lines) = 2
    /\ Len(generate_calls) = 2
    /\ "Error invoking model: e" \in {stdout[k] : k \in 1..Len(stdout)}

(***************************************************************************)
(* Properties of the generator's failures and of the replies.              *)
(***************************************************************************)
\* C15 as stated: a failing generation call is reported to the caller as "no
\* output" and no exception leaves the generator: the statement that called
\* it goes on, in the chatbot cells with None as the result.
C15_FailureIsReturned ==
    /\ raised \notin {"generate", "corrective_generate", "invoke_model"}
    /\ (ChatLoop /\ pc = "chat_print" /\ stdout[Len(stdout)] = "Error invoking model: e")
           => result = NoneResult

\* the call produced no result, or a result without a non-empty 'results' list
NoResponse(r) == r.none \/ "results" \notin r.keys \/ r.results = <<>>

\* C16: a call that failed (invoke_model returned None) or that brought no
\* 'results' does not end the loop: the reply is one of the two apologies (for
\* a failed call the one for the request that could not be processed),
\* nothing is raised, the lines not yet read are kept and the loop is back at
\* input().
C16_FailureKeepsLoopRunning ==
    [][(ChatLoop /\ pc = "chat_print" /\ NoResponse(result)) =>
           /\ stdout' \in {Append(stdout, SorryIssue), Append(stdout, SorryNoResponse)}
           /\ result.none => stdout' = Append(stdout, SorryIssue)
           /\ pc' = "chat_input"
           /\ raised' = ""
           /\ stdin' = stdin]_vars

\* a line was answered after the call for the line before it had failed
C16_Witness ==
    /\ ChatLoop
    /\ \E i, j \in 1..Len(stdout) :
           /\ i < j
           /\ stdout[i] = SorryIssue
           /\ stdout[j] = "Chatbot: Joe's Pizza."

\* a printed line that is a reply of the chatbot
IsReply(line) == Len(line) >= 9 /\ SubSeq(line, 1, 9) = "Chatbot: "

\* the number of replies printed so far
Replies == Cardinality({k \in 1..Len(stdout) : IsReply(stdout[k])})

\* the result holds an output text
HasOutput(r) ==
    /\ ~r.none
    /\ "results" \in r.keys
    /\ r.results # <<>>
    /\ "outputText" \in r.results[1].keys

\* C17 as stated: for every backend outcome the loop prints exactly one reply
\* per query: the output text when the result holds one, otherwise one of the
\* fallback messages.
C17_OneReplyPerQuery ==
    (ChatLoop /\ pc \in {"chat_input", "chat_ended", "raised"}) =>
        /\ Replies = Len(generate_calls)
        /\ (pc = "chat_input" /\ generate_calls # <<>>) =>
               stdout[Len(stdout)] =
                   IF HasOutput(result) THEN "Chatbot: " \o result.results[1].outputText
                   ELSE IF result.none \/ result.keys = {} THEN SorryIssue
                   ELSE SorryNoResponse

(***************************************************************************)
(* Properties of the endpoint, the prompts and the document store.         *)
(***************************************************************************)
\* C18: every request to /assess_liquidity_risk is answered with the object
\* made of the query and of the final response as they were when the cell
\* ended, which is the object every earlier request got; serving it calls
\* neither the retrieval nor the generator and changes nothing else.
C18_EndpointIsReadOnly ==
    [][responses' # responses =>
           /\ responses' = Append(responses, [query |-> user_query, response |-> final_response])
           /\ responses # <<>> => responses'[Len(responses')] = responses[1]
           /\ pc = "done"
           /\ UNCHANGED <<notebook, pc, nbVars, corrVars, chatVars, read_lines, generate_calls,
                          generate_outputs, raised>>]_vars

\* two requests served after a run with a retry
C18_Witness ==
    /\ Corrective
    /\ Len(responses) = 2
    /\ responses[1] = responses[2]
    /\ responses[1].response = final_response
    /\ Len(generate_calls) = 2
    /\ final_response # ""

\* C19 as stated: the first prompt handed to the generator holds the assembled
\* context and the query of the user.
C19_PromptHoldsQuery ==
    /\ (Corrective /\ generate_calls # <<>>) =>
           /\ Contains(context, generate_calls[1])
           /\ Contains(user_query, generate_calls[1])
    /\ (notebook = "hybrid" /\ generate_calls # <<>>) =>
           /\ Contains(Join("\n", StaticDocs), generate_calls[1])
           /\ Contains(read_lines[1], generate_calls[1])

\* C20: no step of a run changes the document store: retrieval, ranking,
\* assembly, generation, the corrective retry and the endpoint leave the
\* documents and their tags as they were loaded.
C20_StoreIsReadOnly == [][database' = database]_vars

\* a run over a non-empty store that retrieved twice and served a request
C20_Witness ==
    /\ Corrective /\ pc = "done"
    /\ database # <<>>
    /\ documents # <<>>
    /\ Len(generate_calls) = 2
    /\ additional_docs # <<>>
    /\ responses # <<>>

(***************************************************************************)
(* Properties of the order of the corrective check and of its result.      *)
(***************************************************************************)
\* C21: the marker check comes only after the first generation has returned;
\* on the retry path the re-retrieval with the fixed query comes before the
\* re-assembly, which comes before the second generation, after which the run
\* is over; and once the first generation has returned the run gets to its
\* end unless the second generation raises.
C21_CheckOrder ==
    /\ [](Corrective =>
             (pc \in {"corrective_rag", "cr_context", "cr_generate", "done"}
                 => Len(generate_outputs) >= 1))
    /\ [][Corrective =>
             /\ pc' = "corrective_rag" =>
                    (pc = "generate" /\ Len(generate_outputs') = 1)
             /\ pc' = "cr_context" =>
                    /\ pc = "corrective_rag"
                    /\ ~Contains(Marker, generated_text)
                    /\ Len(generate_calls') = 1
             /\ pc' = "cr_generate" =>
                    /\ pc = "cr_context"
                    /\ additional_context' = Join(" ", Take(additional_docs, 2))
                    /\ Len(generate_calls') = 1
             /\ (pc' = "done" /\ pc # "done") =>
                    \/ pc = "corrective_rag" /\ Contains(Marker, generated_text)
                    \/ pc = "cr_generate" /\ Len(generate_calls') = 2]_vars
    /\ (Corrective /\ generate_outputs # <<>>)
           ~> (pc = "done" \/ raised = "corrective_generate")

\* a run that went through the retry to its end
C21_Witness ==
    /\ Corrective /\ pc = "done"
    /\ Len(generate_outputs) = 2
    /\ additional_context # ""
    /\ responses = <<>>

\* C22: the final response is a text the generator returned: the first one
\* when it contains the marker, the second one otherwise, as it was returned,
\* with nothing of the first text in it.
C22_FinalIsGeneratedText ==
    (Corrective /\ pc = "done") =>
        /\ Len(generate_outputs) \in {1, 2}
        /\ final_response =
               IF Contains(Marker, generate_outputs[1])
               THEN generate_outputs[1]
               ELSE generate_outputs[2]

\* the second text, with the marker, replaced a non-empty first text
C22_Witness ==
    /\ Corrective /\ pc = "done"
    /\ Len(generate_outputs) = 2
    /\ generate_outputs[1] = "Company X is stable."
    /\ Contains(Marker, generate_outputs[2])
    /\ final_response = generate_outputs[2]

\* C23: a line is read only when every line read before it has got its reply
\* and its generator call has returned; at no time is more than one call
\* without its reply.
C23_OneQueryAtATime ==
    /\ [](ChatLoop => (Len(generate_calls) - Replies) \in {0, 1})
    /\ [][(ChatLoop /\ read_lines' # read_lines) =>
             /\ Replies = Len(read_lines)
             /\ Len(generate_calls) = Len(read_lines)]_vars

\* the second line was read after the reply to the first
C23_Witness ==
    /\ ChatLoop
    /\ Len(read_lines) = 2
    /\ Replies = 1
    /\ pc \in {"chat_retrieve", "chat_invoke"}
    /\ Len(generate_calls) = 1

\* the first context, or the context of the retry, has just been assembled
JustAssembled == Corrective /\ pc = "generate"

JustReAssembled == Corrective /\ pc = "cr_generate"

Min2(n) == IF n < 2 THEN n ELSE 2

\* the first k elements of a list
FirstOf(lst, k) == [i \in 1..k |-> lst[i]]

\* C24: a context of the corrective pipeline is built from exactly the first
\* min(2, n) of the n documents at hand, the ranked ones for the first context
\* and the re-retrieved ones for the retry; with fewer than two documents the
\* assembly raises nothing.
C24_ContextCappedAtTwo ==
    /\ JustAssembled =>
           /\ IsJoined(context, FirstOf(ranked_docs, Min2(Len(ranked_docs))), " ")
           /\ raised = ""
    /\ JustReAssembled =>
           /\ IsJoined(additional_context,
                       FirstOf(additional_docs, Min2(Len(additional_docs))), " ")
           /\ raised = ""

\* three different documents were ranked and the third was left out
C24_Witness ==
    /\ JustAssembled
    /\ Len(ranked_docs) = 3
    /\ Cardinality({ranked_docs[k] : k \in 1..3}) = 3
    /\ context = ranked_docs[1] \o " " \o ranked_docs[2]

(***************************************************************************)
(* Further properties of the keyword retrieval and of the ranking.         *)
(***************************************************************************)
\* the positions of the stored documents one of whose tags, as written,
\* occurs as a contiguous substring of the lower-cased query
SubstringMatched(q) ==
    LET lowered == Lower(q)
    IN  {j \in 1..Len(database) :
            \E tag \in TagSet(database[j]) : Contains(tag, lowered)}

\* the tag has an upper-case letter
HasUpper(tag) == \E i \in 1..Len(tag) : SubSeq(tag, i, i) \in CharsOf(UpperChars)

\* the result is the texts of exactly the substring-matched documents, and no
\* tag with an upper-case letter occurs in the lower-cased query
ExactlySubstringMatches(q, res) ==
    /\ res = TextsFrom(SubstringMatched(q), 1)
    /\ \E lowered \in {Lower(q)} :
           \A j \in 1..Len(database) : \A tag \in TagSet(database[j]) :
               HasUpper(tag) => ~Contains(tag, lowered)

\* C25: retrieve returns a document exactly when at least one of its tags, as
\* written, occurs as a contiguous substring of the lower-cased query; a tag
\* with an upper-case letter never matches.
C25_ExactlySubstringMatches ==
    /\ JustRetrieved => ExactlySubstringMatches(user_query, documents)
    /\ JustReRetrieved => ExactlySubstringMatches(Marker, additional_docs)

\* for the query "Debt" the document tagged "debt" was returned and the
\* document tagged "Debt" was not
C25_Witness ==
    /\ JustRetrieved
    /\ user_query = "Debt"
    /\ \E j \in 1..Len(database) : database[j].text = "stress"
    /\ documents # <<>>
    /\ \A k \in 1..Len(documents) : documents[k] = "liquidity risk is high"

\* res is the texts of the documents at some positions of the store, each
\* position at most once, in insertion order
IsSubsequenceOfStore(res) ==
    /\ Len(res) <= Len(database)
    /\ \E S \in SUBSET (1..Len(database)) : res = TextsFrom(S, 1)

\* C26: retrieve returns each document at most once, also when several of its
\* tags match: the result is a subsequence of the texts of the store in
\* insertion order and is not longer than the store.
C26_EachDocumentOnce ==
    /\ JustRetrieved => IsSubsequenceOfStore(documents)
    /\ JustReRetrieved => IsSubsequenceOfStore(additional_docs)

\* a document two of whose tags occur in the query was returned
C26_Witness ==
    /\ JustRetrieved
    /\ Len(database) = 1
    /\ Cardinality({tag \in TagSet(database[1]) : Contains(tag, Lower(user_query))}) = 2
    /\ documents = <<database[1].text>>

\* the ranking has just been computed
JustRanked == Corrective /\ pc = "context"

\* how often the text occurs in the list
Count(text, lst) == Cardinality({k \in 1..Len(lst) : lst[k] = text})

\* C27: the ranked list is a permutation of the retrieved list: the same
\* length, every position of the retrieved list taken exactly once, so every
\* text as often as it was retrieved.
C27_RankingIsPermutation ==
    JustRanked =>
        /\ Len(ranked_docs) = Len(documents)
        /\ Len(ranked_doc_indices) = Len(documents)
        /\ \A i \in 1..Len(documents) :
               Cardinality({k \in 1..Len(ranked_doc_indices) : ranked_doc_indices[k] = i}) = 1
        /\ \A i \in 1..Len(documents) :
               Count(documents[i], ranked_docs) = Count(documents[i], documents)

\* three documents, one of them retrieved twice, were put into another order
C27_Witness ==
    /\ JustRanked
    /\ Len(documents) = 3
    /\ documents[1] = documents[2]
    /\ documents[3] # documents[1]
    /\ ranked_docs # documents

(***************************************************************************)
(* What the prompts depend on.                                             *)
(***************************************************************************)
\* the positions of the stored documents one of whose tags occurs in the
\* fixed corrective query
MarkerMatched ==
    {j \in 1..Len(database) : \E tag \in TagSet(database[j]) : Contains(tag, Marker)}

\* the prompt of the retry as a function of the store alone
RetryPromptOf ==
    LET matched == TextsFrom(MarkerMatched, 1)
    IN  Join(" ", FirstOf(matched, Min2(Len(matched))))

\* C28: the prompt of the second generation call is a function of the document
\* store and of the fixed query "liquidity risk" alone: neither the query of
\* the user nor the first ranking enters it, so two runs over the same store
\* whose first texts lack the marker send the same second prompt.
C28_RetryPromptFromStoreOnly ==
    (Corrective /\ Len(generate_calls) = 2) => generate_calls[2] = RetryPromptOf

\* a retry after a ranking that put another document first, for a query other
\* than the fixed one
C28_Witness ==
    /\ Corrective
    /\ Len(generate_calls) = 2
    /\ user_query # Marker
    /\ ranked_doc_indices[1] # 1
    /\ generate_calls[2] # generate_calls[1]
    /\ generate_calls[2] # ""

\* the context part of every prompt of the hybrid chatbot
HybridContext == StaticDocs[1] \o "\n" \o StaticDocs[2]

\* C29: in the hybrid chatbot the retrieved documents, and so the context part
\* of the prompt, are the same for every line: the prompt for a line is the
\* same frame and the same context around that line.
C29_RetrievalIgnoresQuery ==
    notebook = "hybrid" =>
        /\ pc \in {"chat_context", "chat_invoke", "chat_print"} =>
               retrieved_docs = <<StaticDocs[1], StaticDocs[2]>>
        /\ \A k \in 1..Len(generate_calls) :
               generate_calls[k] =
                   "User query: " \o read_lines[k] \o "\n\nContext:\n" \o HybridContext

\* two different lines were sent with the same context
C29_Witness ==
    /\ notebook = "hybrid"
    /\ Len(generate_calls) = 2
    /\ read_lines[1] # read_lines[2]
    /\ \E i \in 1..Len(generate_calls[1]) :
           SubSeq(generate_calls[1], i, Len(generate_calls[1])) = HybridContext

(***************************************************************************)
(* Properties of the evaluation notebook.                                  *)
(***************************************************************************)
Evaluation == notebook = "evaluation"

\* the cells one of whose statements reads the name
CellsUsing(name) ==
    {k \in 1..Len(Cells) : \E i \in 1..Len(Cells[k]) : name \in Cells[k][i].uses}

\* C30 as stated: with the code cells executed once each in document order no
\* cell reads a name that is not bound, and eval_chain is bound when the first
\* cell that calls eval_chain.evaluate is about to run.
C30_NamesBoundBeforeUse ==
    Evaluation =>
        /\ name_errors = <<>>
        /\ cell + 1 = MinOf(CellsUsing("eval_chain")) => "eval_chain" \in namespace

====
